---- MODULE Spec2Model ----
(***************************************************************************)
(* Model of the user session store (features/user/userSlice.js) and of the *)
(* API client it calls (services/userService.js).                          *)
(*                                                                         *)
(* The store holds one slice state {user, status, error}.  Every thunk     *)
(* dispatches its pending action synchronously when it is dispatched,      *)
(* calls one userService function, and dispatches fulfilled or rejected    *)
(* when the HTTP call settles.  clearError and logout are synchronous.     *)
(***************************************************************************)
EXTENDS Integers, FiniteSets, Sequences, TLC

\* ------------------------------------------------------------------ bounds
\* Number of thunk dispatches explored in one behaviour.
MaxIssued == 3

\* Number of thunk dispatches explored when checking liveness.
MaxLiveIssued == 2

\* ------------------------------------------------------- JavaScript values
\* null / undefined
Null == [t |-> "null"]

\* a string
Str(s) == [t |-> "str", s |-> s]

\* a plain object, f a function from field names to strings
Obj(f) == [t |-> "obj", f |-> f]

\* JavaScript truthiness of the values used here
Truthy(v) ==
    CASE v.t = "null" -> FALSE
      [] v.t = "str"  -> v.s # ""
      [] OTHER        -> TRUE

\* a || b
OrElse(a, b) == IF Truthy(a) THEN a ELSE b

\* ------------------------------------------------------------- HTTP layer
\* The error axios rejects with: an object with a message and, when a
\* response was received, that response.
AxiosError(msg, hasResponse, data) ==
    [t |-> "err", message |-> msg, hasResponse |-> hasResponse, data |-> data]

\* error.response?.data
ResponseData(err) == IF err.hasResponse THEN err.data ELSE Null

\* Response bodies the API answers a successful call with.
SuccessBodies ==
    { Obj([id |-> "1", email |-> "a@b.com", name |-> "Ann"]),
      Obj([id |-> "2", email |-> "c@d.com", name |-> "New Name"]),
      Obj([message |-> "ok"]) }

\* Errors a failed call rejects with: a structured error body, a plain text
\* body, an empty body, a response without a body, and no response at all.
HttpErrors ==
    { AxiosError("Request failed with status code 401", TRUE,
                 Obj([message |-> "invalid credentials"])),
      AxiosError("Request failed with status code 500", TRUE,
                 Str("Internal Server Error")),
      AxiosError("Request failed with status code 502", TRUE, Str("")),
      AxiosError("Request failed with status code 504", TRUE, Null),
      AxiosError("Network Error", FALSE, Null) }

\* What the awaited axios call does: resolves with a response or rejects.
HttpOutcomes ==
    { [ok |-> TRUE, data |-> d, error |-> Null] : d \in SuccessBodies } \cup
    { [ok |-> FALSE, data |-> Null, error |-> e] : e \in HttpErrors }

\* ------------------------------------------------------------- API client
Operations ==
    { "register", "confirmRegistration", "authenticate",
      "initiatePasswordReset", "completePasswordReset",
      "getUserById", "updateUser" }

\* a client that always throws the raw error
userService_rawError(op, http) ==
    IF http.ok
    THEN [returned |-> TRUE, value |-> http.data]
    ELSE [returned |-> FALSE, value |-> http.error]

\* Every userService function: return response.data, or
\* throw error.response?.data || error.
userService(op, http) ==
    IF http.ok
    THEN [returned |-> TRUE, value |-> http.data]
    ELSE [returned |-> FALSE,
          value |-> OrElse(ResponseData(http.error), http.error)]

\* --------------------------------------------------------------- thunks
\* The action a thunk dispatches when its payload creator finishes:
\* `return response` gives fulfilled, `rejectWithValue(error)` gives
\* rejected with that value as payload and error.message "Rejected".
thunkSettled(op, http) ==
    LET r == userService(op, http) IN
    IF r.returned
    THEN [type |-> "fulfilled", op |-> op, payload |-> r.value,
          errorMessage |-> Null]
    ELSE [type |-> "rejected", op |-> op, payload |-> r.value,
          errorMessage |-> Str("Rejected")]

\* ---------------------------------------------------------------- slice
initialState == [user |-> Null, status |-> "idle", error |-> Null]

\* clearError that also resets the status
clearErrorReducer_resetsStatus(state) ==
    [state EXCEPT !.error = Null, !.status = "idle"]

clearErrorReducer(state) == [state EXCEPT !.error = Null]

\* logout that forgets to reset the status
logoutReducer_keepsStatus(state) ==
    [state EXCEPT !.user = Null, !.error = Null]

logoutReducer(state) ==
    [state EXCEPT !.user = Null, !.status = "idle", !.error = Null]

\* pending whose status change is deferred to a later tick
pendingReducer_deferred(state, op) == [state EXCEPT !.error = Null]

\* pending that forgets to clear the error
pendingReducer_keepsError(state, op) ==
    [state EXCEPT !.status = "loading"]

pendingReducer(state, op) ==
    [state EXCEPT !.status = "loading", !.error = Null]

\* Object.assign of the payload into the previous user instead of replacing
MergeInto(old, new) ==
    IF old.t = "obj" /\ new.t = "obj" THEN Obj(new.f @@ old.f) ELSE new

fulfilledReducer_merges(state, action) ==
    IF action.op = "initiatePasswordReset"
    THEN [state EXCEPT !.status = "succeeded"]
    ELSE [state EXCEPT !.status = "succeeded",
                       !.user = MergeInto(state.user, action.payload)]

\* fulfilled that stores the payload for initiatePasswordReset as well
fulfilledReducer_alwaysStores(state, action) ==
    [state EXCEPT !.status = "succeeded", !.user = action.payload]

\* fulfilled that stores the payload but forgets the status
fulfilledReducer_keepsStatus(state, action) ==
    IF action.op = "initiatePasswordReset"
    THEN state
    ELSE [state EXCEPT !.user = action.payload]

fulfilledReducer(state, action) ==
    IF action.op = "initiatePasswordReset"
    THEN [state EXCEPT !.status = "succeeded"]
    ELSE [state EXCEPT !.status = "succeeded", !.user = action.payload]

\* rejected that always stores action.error.message
rejectedReducer_messageOnly(state, action) ==
    [state EXCEPT !.status = "failed", !.error = action.errorMessage]

\* rejected that also drops the user
rejectedReducer_dropsUser(state, action) ==
    [state EXCEPT !.status = "failed", !.user = Null,
                  !.error = OrElse(action.payload, action.errorMessage)]

rejectedReducer(state, action) ==
    [state EXCEPT !.status = "failed",
                  !.error = OrElse(action.payload, action.errorMessage)]

\* ---------------------------------------------------------------- views
\* The operations a view submits: RegisterUserForm, ConfirmRegistrationForm,
\* LoginForm, PasswordResetInitiate, PasswordResetComplete and UserProfile.
\* No view dispatches getUserByIdThunk.
FormOperations == Operations \ {"getUserById"}

\* a profile view that renders its form without looking at the user
FormRendered_always(state, op) == TRUE

\* Whether the view renders the form that submits op: UserProfile renders
\* its form only inside {user && (...)}, the other views always.
FormRendered(state, op) == op = "updateUser" => Truthy(state.user)

\* value?.name
FieldOf(value, name) ==
    IF value.t = "obj" /\ name \in DOMAIN value.f
    THEN Str(value.f[name])
    ELSE Null

\* The id a view passes to its thunk: UserProfile passes userId = user?.id
\* of the user it rendered; the other views pass form fields only.
SubmitId(state, op) ==
    IF op = "updateUser" THEN FieldOf(state.user, "id") ELSE Null

\* The views, named by the operation each one submits.
Views == FormOperations

\* The text a view shows while loading.
LoadingMessage(view) ==
    CASE view = "register"              -> "Registering user..."
      [] view = "confirmRegistration"   -> "Confirming registration..."
      [] view = "authenticate"          -> "Authenticating..."
      [] view = "initiatePasswordReset" ->
             "Processing password reset initiation..."
      [] view = "completePasswordReset" -> "Resetting password..."
      [] view = "updateUser"            -> "Updating profile..."

\* The text a view shows after a success.
SuccessMessage(view) ==
    CASE view = "register"              -> "User registered successfully!"
      [] view = "confirmRegistration"   ->
             "Registration confirmed successfully!"
      [] view = "authenticate"          -> "Login successful!"
      [] view = "initiatePasswordReset" -> "Password reset email sent!"
      [] view = "completePasswordReset" -> "Password reset successfully!"
      [] view = "updateUser"            -> "Profile updated successfully!"

\* `Error: ${error}`
ErrorText(error) == [t |-> "text", prefix |-> "Error: ", value |-> error]

\* a view that shows the error whenever one is stored
AlertProps_errorFirst(view, state) ==
    IF state.error # Null
    THEN [type |-> "danger", message |-> ErrorText(state.error)]
    ELSE IF state.status = "loading"
    THEN [type |-> "info", message |-> Str(LoadingMessage(view))]
    ELSE IF state.status = "succeeded"
    THEN [type |-> "success", message |-> Str(SuccessMessage(view))]
    ELSE [type |-> "", message |-> Str("")]

\* alertType and alertMessage as every view computes them from the store.
AlertProps(view, state) ==
    IF state.status = "loading"
    THEN [type |-> "info", message |-> Str(LoadingMessage(view))]
    ELSE IF state.status = "failed"
    THEN [type |-> "danger", message |-> ErrorText(state.error)]
    ELSE IF state.status = "succeeded"
    THEN [type |-> "success", message |-> Str(SuccessMessage(view))]
    ELSE [type |-> "", message |-> Str("")]

\* AlertMessage: nothing when the message is empty, else the alert.
AlertMessage(props) ==
    IF ~Truthy(props.message)
    THEN [shown |-> FALSE, type |-> "", message |-> Str("")]
    ELSE [shown |-> TRUE, type |-> props.type, message |-> props.message]

\* ---------------------------------------------------------------- state
VARIABLES
    state,      \* the slice state {user, status, error}
    inflight,   \* thunks dispatched whose outcome is not yet applied
    issued,     \* number of thunks dispatched so far
    last,       \* the action applied last, with the HTTP outcome behind it
    prev,       \* the slice state before the handler that applied it
    tally       \* per thunk, in dispatch order: the API calls made and the
                \* pending and outcome actions applied for it

vars == <<state, inflight, issued, last, prev, tally>>

NoHttp == [ok |-> FALSE, data |-> Null, error |-> Null]

Init ==
    /\ state = initialState
    /\ inflight = {}
    /\ issued = 0
    /\ last = [type |-> "init", op |-> "none", id |-> 0, http |-> NoHttp,
               form |-> FALSE]
    /\ prev = initialState
    /\ tally = <<>>

\* What starting a thunk does besides the reducer: the payload creator runs
\* and makes its one userService call.
StartThunk(op, form) ==
    /\ issued < MaxIssued
    /\ issued' = issued + 1
    /\ inflight' = inflight \cup {[id |-> issued + 1, op |-> op]}
    /\ tally' = Append(tally, [calls |-> 1, pendings |-> 1, outcomes |-> 0])
    /\ last' = [type |-> "pending", op |-> op, id |-> issued + 1,
                http |-> NoHttp, form |-> form,
                argId |-> IF form THEN SubmitId(state, op) ELSE Null]
    /\ prev' = state

\* a dispatch that is refused while another thunk is in flight
DispatchThunk_guarded(op) ==
    /\ inflight = {}
    /\ StartThunk(op, FALSE)
    /\ state' = pendingReducer(state, op)

\* dispatch(someThunk(arg)): pending is applied in the same synchronous step
\* and the request starts; nothing guards against requests already in flight.
DispatchThunk(op) ==
    /\ StartThunk(op, FALSE)
    /\ state' = pendingReducer(state, op)

\* handleSubmit of a view: dispatch(clearError()) and then
\* dispatch(someThunk(formData)) in one synchronous handler.
HandleSubmit(op) ==
    /\ op \in FormOperations
    /\ FormRendered(state, op)
    /\ StartThunk(op, TRUE)
    /\ state' = pendingReducer(clearErrorReducer(state), op)

\* The reducer case an outcome action runs.
ApplyOutcome(s, action) ==
    IF action.type = "fulfilled"
    THEN fulfilledReducer(s, action)
    ELSE rejectedReducer(s, action)

\* an outcome that is dropped when a thunk dispatched later is in flight
Settle_discardsStale(r, http) ==
    /\ r \in inflight
    /\ LET action == thunkSettled(r.op, http) IN
         /\ state' = IF \E q \in inflight : q.id > r.id
                     THEN state
                     ELSE ApplyOutcome(state, action)
         /\ last' = [type |-> action.type, op |-> r.op, id |-> r.id,
                     http |-> http, form |-> FALSE]
    /\ inflight' = inflight \ {r}
    /\ tally' = [tally EXCEPT ![r.id].outcomes = @ + 1]
    /\ prev' = state
    /\ UNCHANGED issued

\* a failed call that is retried once instead of being reported
Settle_retries(r, http) ==
    /\ r \in inflight
    /\ IF ~http.ok /\ tally[r.id].calls = 1
       THEN /\ tally' = [tally EXCEPT ![r.id].calls = @ + 1]
            /\ UNCHANGED <<state, inflight, issued, last, prev>>
       ELSE /\ LET action == thunkSettled(r.op, http) IN
                 /\ state' = ApplyOutcome(state, action)
                 /\ last' = [type |-> action.type, op |-> r.op, id |-> r.id,
                             http |-> http, form |-> FALSE]
            /\ inflight' = inflight \ {r}
            /\ tally' = [tally EXCEPT ![r.id].outcomes = @ + 1]
            /\ prev' = state
            /\ UNCHANGED issued

\* The HTTP call of an in-flight thunk settles and the thunk dispatches
\* fulfilled or rejected.
Settle(r, http) ==
    /\ r \in inflight
    /\ LET action == thunkSettled(r.op, http) IN
         /\ state' = ApplyOutcome(state, action)
         /\ last' = [type |-> action.type, op |-> r.op, id |-> r.id,
                     http |-> http, form |-> FALSE]
    /\ inflight' = inflight \ {r}
    /\ tally' = [tally EXCEPT ![r.id].outcomes = @ + 1]
    /\ prev' = state
    /\ UNCHANGED issued

DispatchClearError ==
    /\ state' = clearErrorReducer(state)
    /\ last' = [type |-> "clearError", op |-> "none", id |-> 0,
                http |-> NoHttp, form |-> FALSE]
    /\ prev' = state
    /\ UNCHANGED <<inflight, issued, tally>>

\* a logout that also abandons the thunks in flight
DispatchLogout_cancels ==
    /\ state' = logoutReducer(state)
    /\ last' = [type |-> "logout", op |-> "none", id |-> 0, http |-> NoHttp,
                form |-> FALSE]
    /\ prev' = state
    /\ inflight' = {}
    /\ UNCHANGED <<issued, tally>>

DispatchLogout ==
    /\ state' = logoutReducer(state)
    /\ last' = [type |-> "logout", op |-> "none", id |-> 0, http |-> NoHttp,
                form |-> FALSE]
    /\ prev' = state
    /\ UNCHANGED <<inflight, issued, tally>>

Next ==
    \/ \E op \in Operations : DispatchThunk(op)
    \/ \E op \in Operations : HandleSubmit(op)
    \/ \E r \in inflight, http \in HttpOutcomes : Settle(r, http)
    \/ DispatchClearError
    \/ DispatchLogout

Spec == Init /\ [][Next]_vars

\* Next with the number of dispatches cut down to MaxLiveIssued.
LiveNext ==
    \/ \E op \in Operations : issued < MaxLiveIssued /\ DispatchThunk(op)
    \/ \E op \in Operations : issued < MaxLiveIssued /\ HandleSubmit(op)
    \/ \E r \in inflight, http \in HttpOutcomes : Settle(r, http)
    \/ DispatchClearError
    \/ DispatchLogout

\* The remote call of every dispatched thunk eventually returns or fails.
LiveSpec ==
    /\ Init /\ [][LiveNext]_vars
    /\ \A id \in 1..MaxIssued :
         WF_vars(\E r \in inflight, http \in HttpOutcomes :
                    r.id = id /\ Settle(r, http))

\* Serial usage: a thunk is dispatched, and logout is dispatched, only when
\* no thunk is in flight.
SerialNext ==
    \/ \E op \in Operations : inflight = {} /\ DispatchThunk(op)
    \/ \E op \in Operations : inflight = {} /\ HandleSubmit(op)
    \/ \E r \in inflight, http \in HttpOutcomes : Settle(r, http)
    \/ DispatchClearError
    \/ inflight = {} /\ DispatchLogout

SerialSpec == Init /\ [][SerialNext]_vars

\* ------------------------------------------------------------ properties
\* The operations whose fulfilled case stores the payload as the user.
AccountReplacing == Operations \ {"initiatePasswordReset"}

IsOutcome == last.type \in {"fulfilled", "rejected"}

\* The failed call behind the last action carried a usable error body.
HasErrorBody ==
    /\ last.http.error.hasResponse
    /\ \/ last.http.error.data.t = "obj"
       \/ last.http.error.data.t = "str" /\ last.http.error.data.s # ""

\* C1 (as stated): in every reachable state the error is non-empty only
\* when the status is failed.
C1_ErrorOnlyWhenFailed == state.error # Null => state.status = "failed"

\* C1 (amended): the error is non-empty only when the status is failed or
\* succeeded, never when it is idle or loading; it is non-empty with status
\* succeeded only after at least two thunks were dispatched.
C1_ErrorOnlyAfterOutcome ==
    state.error # Null =>
        /\ state.status \in {"failed", "succeeded"}
        /\ state.status = "succeeded" => issued >= 2

C1_Witness == state.error # Null /\ state.status = "succeeded"

\* C2 (as stated): the status is loading exactly when some dispatched thunk
\* has not had its outcome applied.
C2_LoadingIffInFlight == (state.status = "loading") <=> (inflight # {})

\* C2 (amended): whenever the status is loading some dispatched thunk has
\* not had its outcome applied (the converse does not hold).
C2_LoadingImpliesInFlight == state.status = "loading" => inflight # {}

C2_Witness ==
    /\ state.status = "loading"
    /\ Cardinality(inflight) = 1
    /\ issued >= 2

\* C3: once every dispatched thunk has settled and the last action applied
\* was an outcome, the state reflects that outcome: succeeded for a success
\* (with the user equal to its response body for an account-replacing
\* operation), failed for a failure with the error equal to what the API
\* client threw.
C3_LastOutcomeWins ==
    (inflight = {} /\ IsOutcome) =>
        /\ last.http.ok =>
             /\ state.status = "succeeded"
             /\ last.op \in AccountReplacing => state.user = last.http.data
        /\ ~last.http.ok =>
             /\ state.status = "failed"
             /\ state.error =
                  IF HasErrorBody THEN last.http.error.data
                                  ELSE last.http.error

\* every thunk settled, and the one dispatched first settled last
C3_Witness ==
    /\ inflight = {}
    /\ IsOutcome
    /\ issued >= 2
    /\ last.id = 1
    /\ prev.status # "loading"

\* C4: the user changes only when a success of an account-replacing
\* operation is applied (it becomes the response body) or when logout is
\* applied (it becomes null); pending, rejected, the initiatePasswordReset
\* success and clearError leave it unchanged.
C4_UserChangesOnlyBySuccessOrLogout ==
    /\ state.user # prev.user =>
          \/ /\ last.type = "fulfilled"
             /\ last.op \in AccountReplacing
             /\ state.user = last.http.data
          \/ /\ last.type = "logout"
             /\ state.user = Null
    /\ ( \/ last.type \in {"pending", "rejected", "clearError"}
         \/ last.type = "fulfilled" /\ last.op = "initiatePasswordReset" )
       => state.user = prev.user

\* a failure applied while a user is held
C4_Witness ==
    /\ last.type = "rejected"
    /\ prev.user # Null
    /\ state.user = prev.user

\* C5: dispatching any thunk sets the status to loading and the error to
\* null and leaves the user unchanged.
C5_PendingEffect ==
    last.type = "pending" =>
        /\ state.status = "loading"
        /\ state.error = Null
        /\ state.user = prev.user

\* a thunk dispatched from a failed state holding a user and an error
C5_Witness ==
    /\ last.type = "pending"
    /\ prev.status = "failed"
    /\ prev.error # Null
    /\ prev.user # Null

\* C6: a success of an account-replacing operation sets the status to
\* succeeded and the user to exactly the response body.
C6_SuccessReplacesUser ==
    (last.type = "fulfilled" /\ last.op \in AccountReplacing) =>
        /\ state.status = "succeeded"
        /\ state.user = last.http.data

\* an update whose response body lacks fields the previous user had
C6_Witness ==
    /\ last.type = "fulfilled"
    /\ last.op = "updateUser"
    /\ last.http.data = Obj([message |-> "ok"])
    /\ prev.user.t = "obj"
    /\ "id" \in DOMAIN prev.user.f

\* C7: a success of initiatePasswordReset sets the status to succeeded and
\* leaves the user and the error as they were.
C7_InitiateResetSuccess ==
    (last.type = "fulfilled" /\ last.op = "initiatePasswordReset") =>
        /\ state.status = "succeeded"
        /\ state.user = prev.user
        /\ state.error = prev.error

C7_Witness ==
    /\ last.type = "fulfilled"
    /\ last.op = "initiatePasswordReset"
    /\ prev.user # Null
    /\ last.http.data # prev.user

\* C8: a failure of any operation sets the status to failed, sets the error
\* to what the API client threw (the response's error body when it carried
\* one, else the error axios rejected with) and leaves the user unchanged.
C8_FailureEffect ==
    last.type = "rejected" =>
        /\ state.status = "failed"
        /\ state.user = prev.user
        /\ HasErrorBody => state.error = last.http.error.data
        /\ ~HasErrorBody => state.error = last.http.error

\* a 401 with a structured body applied while a user is held
C8_Witness ==
    /\ last.type = "rejected"
    /\ last.op = "authenticate"
    /\ HasErrorBody
    /\ last.http.error.data = Obj([message |-> "invalid credentials"])
    /\ prev.user # Null

\* C9 (as stated): when the failed call carried no error body the error
\* stored is a generic message, not the error object axios rejected with.
C9_GenericMessageWithoutBody ==
    (last.type = "rejected" /\ ~HasErrorBody) =>
        /\ state.error.t = "str"
        /\ state.error # last.http.error

\* C10: logout yields exactly the initial state, whatever the state before
\* and whatever is in flight.
C10_LogoutResets == last.type = "logout" => state = initialState

\* logout from a failed state with a user, an error and a request in flight
C10_Witness ==
    /\ last.type = "logout"
    /\ inflight # {}
    /\ prev.user # Null
    /\ prev.error # Null
    /\ prev.status = "failed"

\* The ids of the thunks in flight.
InFlightIds == {r.id : r \in inflight}

\* C11: clearError sets the error to null and leaves the status and the
\* user unchanged (a failed state stays failed, with a null error), and
\* applying it again changes nothing.
C11_ClearErrorEffect ==
    last.type = "clearError" =>
        /\ state.error = Null
        /\ state.status = prev.status
        /\ state.user = prev.user
        /\ prev.status = "failed" => state.status = "failed"
        /\ clearErrorReducer(state) = state

C11_Witness ==
    /\ last.type = "clearError"
    /\ prev.status = "failed"
    /\ prev.error # Null
    /\ prev.user # Null

\* C12 (as stated): clearError applied in a state whose status is not
\* failed leaves the whole state unchanged.
C12_NoOpWhenNotFailed ==
    (last.type = "clearError" /\ prev.status # "failed") => state = prev

\* C12 (amended): clearError applied in a state whose status is idle or
\* loading leaves the whole state unchanged; applied in a succeeded state it
\* leaves the user and the status unchanged, and changes the error only if
\* at least two thunks were dispatched.
C12_NoOpWhenIdleOrLoading ==
    last.type = "clearError" =>
        /\ prev.status \in {"idle", "loading"} => state = prev
        /\ prev.status = "succeeded" =>
             /\ state.user = prev.user
             /\ state.status = prev.status
             /\ issued < 2 => state = prev

C12_Witness ==
    /\ last.type = "clearError"
    /\ prev.status = "loading"
    /\ prev.user # Null
    /\ state = prev

\* C13: dispatching a thunk is possible in every state, also while others
\* are in flight; the dispatch starts its own request at once and every
\* thunk dispatched earlier and not yet settled stays in flight.
C13_NoInFlightGuard ==
    /\ issued < MaxIssued => \A op \in Operations : ENABLED DispatchThunk(op)
    /\ InFlightIds = {i \in 1..issued : tally[i].outcomes = 0}
    /\ Cardinality(inflight) = Cardinality(InFlightIds)
    /\ last.type = "pending" =>
         /\ [id |-> last.id, op |-> last.op] \in inflight
         /\ tally[last.id].calls = 1

\* a thunk dispatched while another of the same kind is in flight
C13_Witness ==
    /\ last.type = "pending"
    /\ prev.status = "loading"
    /\ \E q \in inflight : q.id < last.id /\ q.op = last.op

\* C14: the step that dispatches a thunk applies its pending action (the
\* status is loading right after it, no outcome applied yet for it), and a
\* step that applies a thunk's outcome finds its pending already applied.
C14_PendingBeforeOutcome ==
    [][ /\ issued' = issued + 1 =>
             /\ last'.type = "pending"
             /\ last'.id = issued'
             /\ state'.status = "loading"
             /\ tally'[issued'].pendings = 1
             /\ tally'[issued'].outcomes = 0
        /\ \A i \in 1..issued' :
             (i > issued \/ tally'[i].outcomes # tally[i].outcomes) =>
                 \/ i = issued + 1 /\ tally'[i].outcomes = 0
                 \/ /\ i <= issued
                    /\ tally[i].pendings = 1
                    /\ tally[i].outcomes = 0 ]_vars

\* an outcome applied for a thunk that was dispatched from the idle state
C14_Witness ==
    /\ IsOutcome
    /\ last.id = 1
    /\ tally[1].pendings = 1
    /\ tally[1].outcomes = 1
    /\ issued = 1

\* C15: every thunk in flight eventually has its outcome applied, whatever
\* is dispatched meanwhile.
C15_EveryThunkSettles ==
    \A id \in 1..MaxIssued :
        (id \in InFlightIds) ~> (Len(tally) >= id /\ tally[id].outcomes = 1)

\* an outcome applied to the state a logout left behind
C15_Witness ==
    /\ IsOutcome
    /\ prev = initialState
    /\ tally[last.id].outcomes = 1

\* C16: every dispatched thunk has made exactly one API call and has had
\* at most one outcome applied, exactly one once it is no longer in flight;
\* the outcome is fulfilled when the call succeeded and rejected when it
\* failed.
C16_OneCallOneOutcome ==
    /\ Len(tally) = issued
    /\ \A i \in 1..issued :
         /\ tally[i].calls = 1
         /\ tally[i].outcomes = IF i \in InFlightIds THEN 0 ELSE 1
    /\ IsOutcome =>
         last.type = IF last.http.ok THEN "fulfilled" ELSE "rejected"

\* a failed call reported once, with no second call
C16_Witness ==
    /\ last.type = "rejected"
    /\ ~last.http.ok
    /\ tally[last.id].calls = 1
    /\ tally[last.id].outcomes = 1

\* C17: the API client returns the response body on success, throws the
\* response's error body when it is truthy, and throws the raw error when
\* there is no response or the body is empty.
C17_ClientContract ==
    IsOutcome =>
        LET r == userService(last.op, last.http) IN
        /\ last.http.ok => r.returned /\ r.value = last.http.data
        /\ (~last.http.ok /\ HasErrorBody) =>
             ~r.returned /\ r.value = last.http.error.data
        /\ (~last.http.ok /\ ~HasErrorBody) =>
             ~r.returned /\ r.value = last.http.error

\* a failed getUserById whose response has an empty body
C17_Witness ==
    /\ last.type = "rejected"
    /\ last.op = "getUserById"
    /\ last.http.error.hasResponse
    /\ last.http.error.data = Str("")

\* C18: an outcome applied while a thunk dispatched later is still in
\* flight is applied in full: the status leaves loading, and the user (for an
\* account-replacing success) or the error (for a failure) is overwritten.
C18_StaleOutcomeApplied ==
    (IsOutcome /\ \E q \in inflight : q.id > last.id) =>
        /\ state.status = IF last.http.ok THEN "succeeded" ELSE "failed"
        /\ (last.http.ok /\ last.op \in AccountReplacing) =>
             state.user = last.http.data
        /\ ~last.http.ok =>
             /\ state.error # Null
             /\ state.error \in {last.http.error, last.http.error.data}
        /\ state = ApplyOutcome(prev, thunkSettled(last.op, last.http))

C18_Witness ==
    /\ IsOutcome
    /\ \E q \in inflight : q.id > last.id
    /\ prev.status = "loading"
    /\ state.status = "succeeded"
    /\ state.user # prev.user

\* C19: right after a view's handleSubmit the status is loading, the error
\* null and the user unchanged, the same state as dispatching the thunk
\* alone from the state before the submit.
C19_SubmitEqualsTrigger ==
    last.form =>
        /\ last.type = "pending"
        /\ state.status = "loading"
        /\ state.error = Null
        /\ state.user = prev.user
        /\ state = pendingReducer(prev, last.op)

\* a login submitted from a failed state that shows an error
C19_Witness ==
    /\ last.form
    /\ last.op = "authenticate"
    /\ prev.status = "failed"
    /\ prev.error # Null

\* C20: under serial usage the error is non-null only when the status is
\* failed, and the status is loading exactly when a thunk is in flight.
C20_SerialInvariants ==
    /\ state.error # Null => state.status = "failed"
    /\ (state.status = "loading") <=> (inflight # {})
    /\ Cardinality(inflight) <= 1

\* a second thunk dispatched after the first one failed, and failed too
C20_Witness ==
    /\ issued >= 2
    /\ inflight = {}
    /\ state.status = "failed"
    /\ state.error # Null
    /\ prev.status = "loading"

\* C21: logout leaves every unsettled thunk in flight, and an outcome
\* applied to the state a logout left behind is applied in full: the status
\* leaves idle for succeeded or failed and an account-replacing success
\* stores its response body as the user.
C21_LogoutDoesNotCancel ==
    /\ last.type = "logout" =>
         InFlightIds = {i \in 1..issued : tally[i].outcomes = 0}
    /\ (IsOutcome /\ prev.status = "idle") =>
         /\ state.status = IF last.http.ok THEN "succeeded" ELSE "failed"
         /\ (last.http.ok /\ last.op \in AccountReplacing) =>
              state.user = last.http.data
         /\ ~last.http.ok => state.error # Null

\* with no dispatch after the logout, the user is set again
C21_Witness ==
    /\ IsOutcome
    /\ prev = initialState
    /\ state.status = "succeeded"
    /\ state.user # Null
    /\ inflight = {}
    /\ issued = 1

\* C22: the status is idle only initially, right after a logout, or after a
\* clearError applied to an idle state; once a thunk was dispatched it is
\* idle only through logout, and no pending or outcome action leaves it idle.
C22_IdleOnlyByLogout ==
    /\ state.status = "idle" =>
         \/ last.type \in {"init", "logout"}
         \/ last.type = "clearError" /\ prev.status = "idle"
    /\ (state.status = "idle" /\ issued >= 1) => last.type # "init"
    /\ last.type \in {"pending", "fulfilled", "rejected"} =>
         state.status # "idle"

C22_Witness ==
    /\ issued >= 1
    /\ state.status = "idle"
    /\ last.type = "logout"
    /\ prev.status = "succeeded"

\* C23: in every view the alert depends on the store status only: info
\* while loading, danger when failed, the view's own success text when
\* succeeded and nothing when idle, whichever operation set the status.
C23_AlertFollowsStatus ==
    \A view \in Views :
        LET alert == AlertMessage(AlertProps(view, state)) IN
        /\ state.status = "loading" => alert.shown /\ alert.type = "info"
        /\ state.status = "failed" => alert.shown /\ alert.type = "danger"
        /\ state.status = "succeeded" =>
             /\ alert.shown
             /\ alert.type = "success"
             /\ alert.message = Str(SuccessMessage(view))
             /\ view = "updateUser" =>
                  alert.message = Str("Profile updated successfully!")
        /\ state.status = "idle" => ~alert.shown

\* the profile view says the profile was updated after a login succeeded
C23_Witness ==
    /\ last.type = "fulfilled"
    /\ last.op = "authenticate"
    /\ state.status = "succeeded"
    /\ AlertMessage(AlertProps("updateUser", state)).message
       = Str("Profile updated successfully!")

\* C24: an update submitted from the profile view was submitted in a state
\* holding a user and carries the id field of that user; while no user is
\* held (initially, after a logout) the view cannot submit an update.
C24_UpdateNeedsUser ==
    /\ (last.form /\ last.op = "updateUser") =>
         /\ Truthy(prev.user)
         /\ prev.user.t = "obj"
         /\ last.argId = IF "id" \in DOMAIN prev.user.f
                         THEN Str(prev.user.f.id)
                         ELSE Null
    /\ ~Truthy(state.user) => ~ENABLED HandleSubmit("updateUser")
    /\ last.type \in {"init", "logout"} => ~ENABLED HandleSubmit("updateUser")

\* an update submitted for the user with id 2
C24_Witness ==
    /\ last.form
    /\ last.op = "updateUser"
    /\ last.argId = Str("2")
    /\ prev.user = Obj([id |-> "2", email |-> "c@d.com", name |-> "New Name"])

====
